---- MODULE Spec2Model ----
(***************************************************************************)
(* wiinote: a Bluetooth HID client for the Wii Remote.                     *)
(*                                                                         *)
(*   report.rs      the report codec (InputReport::parse, Buttons, Lights, *)
(*                  OutputReport::write)                                   *)
(*   connection.rs  Connection: receive buffer, read_report, write         *)
(*   wiimote.rs     Wiimote: the run loop, heartbeat, lights mode          *)
(*   main.rs        main: the loop over connections                        *)
(*                                                                         *)
(* Bytes are naturals in 0..255; a bit set (Buttons, Lights) is modelled   *)
(* by the integer holding its bits, decoded into flag names where the code *)
(* compares against named flags.                                           *)
(***************************************************************************)
EXTENDS Integers, Sequences, FiniteSets, TLC

VARIABLES
    buffer,           \* Connection.buffer: bytes read and not yet parsed
    stream,           \* Connection.stream: bytes held by the BufWriter, not yet flushed
    wire,             \* bytes the peer has sent that no channel read has taken yet
    peerClosed,       \* the peer has closed the data channel
    mode,             \* Wiimote.mode
    prev_lights,      \* Wiimote.prev_lights (Lights bits)
    awaiting_status,  \* Wiimote.awaiting_status
    pc,               \* where the program is: "select" (run waits), "returned" (run has
                      \* returned to main), "connect" (main obtains a connection), "exited"
    result,           \* what run returned: "running", "Ok" or the error
    exit,             \* what main returned: "running", "Ok" or the error
    shown,            \* the lamp pattern of the last SetLights issued (all lamps before)
    step,             \* the branch of the select! the last step took, and its outcome
    pre,              \* the Wiimote fields and the buffer as the last step found them
    effects,          \* what the last step did, in order: sink updates and writes
    sent,             \* the complete frames the peer has sent, in order
    received,         \* the reports read_report has returned, in order
    call,             \* codec harness: the function applied and its input
    ret,              \* codec harness: what it returned
    host,             \* main inside discover(), pair() or listen(): where it is, the
                      \* agents registered with the session, the discovery session
    peer              \* the remote: whether it is one that answers each RequestStatus
                      \* with one Status frame, and the replies it still owes

vars == <<buffer, stream, wire, peerClosed, mode, prev_lights, awaiting_status, pc,
          result, exit, shown, step, pre, effects, sent, received, call, ret, host,
          peer>>

connVars == <<buffer, wire, peerClosed>>
wiiVars == <<mode, prev_lights, awaiting_status>>
outVars == <<stream, shown>>
runVars == <<pc, result, exit, step, pre, effects, sent, received>>
harnessVars == <<call, ret>>

(***************************************************************************)
(* Bounds of the model.                                                    *)
(***************************************************************************)
\* frames the peer sends in one session
MaxFrames == 2
\* replies the answering remote may owe when a heartbeat ticks
MaxOwed == 2
\* frames of a burst
MaxBurst == 3
\* bytes that follow a frame in a buffer handed to the parser
MaxTrail == 2

(***************************************************************************)
(* Bit arithmetic on unsigned integers.                                    *)
(***************************************************************************)
Bit(v, i) == (v \div (2 ^ i)) % 2

RECURSIVE BitOr(_, _)
BitOr(a, b) ==
    IF a = 0 THEN b
    ELSE IF b = 0 THEN a
    ELSE (IF a % 2 = 1 \/ b % 2 = 1 THEN 1 ELSE 0) + 2 * BitOr(a \div 2, b \div 2)

RECURSIVE SumBits(_, _)
SumBits(table, names) ==
    IF names = {} THEN 0
    ELSE LET n == CHOOSE x \in names : TRUE
         IN (2 ^ table[n]) + SumBits(table, names \ {n})

(***************************************************************************)
(* report.rs: Buttons and Lights.                                          *)
(***************************************************************************)
\* mutant: the bits of HOME and LEFT exchanged
Buttons_home_left ==
    [UP |-> 11, DOWN |-> 10, LEFT |-> 7, RIGHT |-> 9,
     A |-> 3, B |-> 2,
     PLUS |-> 12, HOME |-> 8, MINUS |-> 4, ONE |-> 1, TWO |-> 0]

\* bitflags! Buttons: u16, each flag given by the bit it occupies (1 << n)
Buttons ==
    [UP |-> 11, DOWN |-> 10, LEFT |-> 8, RIGHT |-> 9,
     A |-> 3, B |-> 2,
     PLUS |-> 12, HOME |-> 7, MINUS |-> 4, ONE |-> 1, TWO |-> 0]

\* Buttons::from_bits_truncate: the named flags set in bits, other bits dropped
from_bits_truncate(bits) == {f \in DOMAIN Buttons : Bit(bits, Buttons[f]) = 1}

\* bitflags! Lights: u8
Lights == [ONE |-> 0, TWO |-> 1, THREE |-> 2, FOUR |-> 3]

\* Lights::all()
Lights_all == SumBits(Lights, DOMAIN Lights)

\* Lights::from_bits(bits).unwrap(): the value; -1 stands for the panic of unwrap
\* when a bit of bits is no flag
Lights_from_bits(bits) ==
    IF \A i \in 0..7 : Bit(bits, i) = 1 => (\E f \in DOMAIN Lights : Lights[f] = i)
    THEN bits
    ELSE -1

\* mutant: the loop over 0..bits, its end excluded
RECURSIVE scale_loop_exclusive(_, _, _)
scale_loop_exclusive(enabled, i, bits) ==
    IF i >= bits THEN enabled
    ELSE scale_loop_exclusive(BitOr(enabled, 2 ^ i), i + 1, bits)

\* the body of the loop of Lights::scale: for i in 0..=bits { enabled |= 1 << i }
RECURSIVE scale_loop(_, _, _)
scale_loop(enabled, i, bits) ==
    IF i > bits THEN enabled
    ELSE scale_loop(BitOr(enabled, 2 ^ i), i + 1, bits)

\* Lights::scale(value: u8)
scale(value) ==
    LET bits == value \div (2 ^ 6)
    IN Lights_from_bits(scale_loop(1, 0, bits))

(***************************************************************************)
(* report.rs: InputReport::parse over a Cursor<&[u8]>.                     *)
(***************************************************************************)
TRANS_HEADER == 161      \* InputReport::TRANS_HEADER, 0xA1

Cursor(buf) == [buf |-> buf, pos |-> 0]
remaining(src) == Len(src.buf) - src.pos
get_u8(src) == src.buf[src.pos + 1]
\* Buf::get_u16 reads big-endian
get_u16(src) == src.buf[src.pos + 1] * 256 + src.buf[src.pos + 2]
advance(src, n) == [src EXCEPT !.pos = @ + n]

\* Buttons::from_common
from_common(src) == from_bits_truncate(get_u16(src))

ensure_readable(src, len) == remaining(src) >= len

ParseOk(report, src) == [ok |-> TRUE, report |-> report, position |-> src.pos]
ParseErr(err, src) == [ok |-> FALSE, err |-> err, position |-> src.pos]

Incomplete == [kind |-> "Incomplete"]
InvalidTransHeader(id) == [kind |-> "InvalidTransHeader", id |-> id]
UnknownReportType(id) == [kind |-> "UnknownReportType", id |-> id]

\* the data report ids parse accepts: 0x30..=0x37 | 0x3D..=0x3F
DataReportIds == (48..55) \cup (61..63)

\* mutant: report 0x32 taken one byte short
drm_len_short(id) ==
    CASE id = 48 -> 2
      [] id = 49 -> 5
      [] id = 50 -> 9
      [] id = 51 -> 17
      [] OTHER -> 21

\* the payload length of a data report
drm_len(id) ==
    CASE id = 48 -> 2
      [] id = 49 -> 5
      [] id = 50 -> 10
      [] id = 51 -> 17
      [] OTHER -> 21

\* the 0x20 arm
parse_status(src) ==
    IF ~ensure_readable(src, 6) THEN ParseErr(Incomplete, src)
    ELSE LET buttons == from_common(src)
             s1 == advance(src, 2)
             status == get_u8(s1)
             s2 == advance(advance(s1, 1), 2)      \* unknown, always zero
             battery == get_u8(s2)
         IN ParseOk([variant |-> "Status",
                     buttons |-> buttons,
                     lights |-> Lights_from_bits(status \div (2 ^ 4)),
                     plugged_ext |-> Bit(status, 1) # 0,
                     speaker_enabled |-> Bit(status, 2) # 0,
                     ir_enabled |-> Bit(status, 3) # 0,
                     battery |-> battery],
                    advance(s2, 1))

\* the 0x22 arm
parse_result(src) ==
    IF ~ensure_readable(src, 4) THEN ParseErr(Incomplete, src)
    ELSE ParseOk([variant |-> "Result",
                  buttons |-> from_common(src),
                  response_to |-> get_u8(advance(src, 2)),
                  code |-> get_u8(advance(src, 3))],
                 advance(src, 4))

\* the data report arm
parse_drm(src, id) ==
    LET len == drm_len(id)
    IN IF ~ensure_readable(src, len) THEN ParseErr(Incomplete, src)
       ELSE LET buttons == IF id # 61 THEN from_common(src) ELSE {}
                s1 == advance(src, 2)
            IN ParseOk([variant |-> "Drm", buttons |-> buttons, mode |-> id],
                       advance(s1, len - 2))

\* mutant: the transaction header read and not compared
parse_any_header(buf) ==
    LET src == Cursor(buf)
    IN IF remaining(src) < 3 THEN ParseErr(Incomplete, src)
       ELSE LET s1 == advance(src, 1)
                id == get_u8(s1)
                s2 == advance(s1, 1)
            IN CASE id = 32 -> parse_status(s2)
                 [] id = 34 -> parse_result(s2)
                 [] id \in DataReportIds -> parse_drm(s2, id)
                 [] OTHER -> ParseErr(UnknownReportType(id), s2)

\* InputReport::parse
parse(buf) ==
    LET src == Cursor(buf)
    IN IF remaining(src) < 3 THEN ParseErr(Incomplete, src)
       ELSE LET trans_header == get_u8(src)
                s1 == advance(src, 1)
            IN IF trans_header # TRANS_HEADER
               THEN ParseErr(InvalidTransHeader(trans_header), s1)
               ELSE LET id == get_u8(s1)
                        s2 == advance(s1, 1)
                    IN CASE id = 32 -> parse_status(s2)
                         [] id = 34 -> parse_result(s2)
                         [] id \in DataReportIds -> parse_drm(s2, id)
                         [] OTHER -> ParseErr(UnknownReportType(id), s2)

\* InputReport::buttons
buttons_of(report) == report.buttons

(***************************************************************************)
(* report.rs: OutputReport and its encoding.                               *)
(***************************************************************************)
OUT_TRANS_HEADER == 162      \* OutputReport::TRANS_HEADER, 0xA2

SetLights(enabled) == [cmd |-> "SetLights", lights |-> enabled]
SetDrm(lights, drm) == [cmd |-> "SetDrm", lights |-> lights, mode |-> drm]
RequestStatus(lights) == [cmd |-> "RequestStatus", lights |-> lights]

\* mutant: the lamp bits shifted by three
shl3(bits) == (bits * 8) % 256

\* u8 << 4
shl4(bits) == (bits * 16) % 256

\* OutputReport::write: the bytes written to the stream
OutputReport_write(report) ==
    CASE report.cmd = "SetLights" -> <<OUT_TRANS_HEADER, 17, shl4(report.lights)>>
      [] report.cmd = "SetDrm" ->
            <<OUT_TRANS_HEADER, 18, shl4(report.lights), report.mode>>
      [] report.cmd = "RequestStatus" -> <<OUT_TRANS_HEADER, 21, shl4(report.lights)>>

(***************************************************************************)
(* connection.rs: Connection.                                              *)
(***************************************************************************)
\* mutant: the whole buffer discarded with the report parsed
parse_report_clear(buf) ==
    LET r == parse(buf)
    IN IF r.ok
       THEN [kind |-> "Some", report |-> r.report, buffer |-> <<>>]
       ELSE IF r.err.kind = "Incomplete"
            THEN [kind |-> "None", buffer |-> buf]
            ELSE [kind |-> "Err", err |-> r.err, buffer |-> buf]

\* mutant: every error of parse taken as "not enough data"
parse_report_swallow(buf) ==
    LET r == parse(buf)
    IN IF r.ok
       THEN [kind |-> "Some", report |-> r.report,
             buffer |-> SubSeq(buf, r.position + 1, Len(buf))]
       ELSE [kind |-> "None", buffer |-> buf]

\* mutant: the buffer cleared when the parse was incomplete
parse_report_drop(buf) ==
    LET r == parse(buf)
    IN IF r.ok
       THEN [kind |-> "Some", report |-> r.report,
             buffer |-> SubSeq(buf, r.position + 1, Len(buf))]
       ELSE IF r.err.kind = "Incomplete"
            THEN [kind |-> "None", buffer |-> <<>>]
            ELSE [kind |-> "Err", err |-> r.err, buffer |-> buf]

\* Connection::parse_report on the buffer buf: the outcome and the buffer left
parse_report(buf) ==
    LET r == parse(buf)
    IN IF r.ok
       THEN [kind |-> "Some", report |-> r.report,
             buffer |-> SubSeq(buf, r.position + 1, Len(buf))]
       ELSE IF r.err.kind = "Incomplete"
            THEN [kind |-> "None", buffer |-> buf]
            ELSE [kind |-> "Err", err |-> r.err, buffer |-> buf]

\* the write events of a step
Writes(evs) == SelectSeq(evs, LAMBDA e : e.ev = "write")

\* a write of a step: the report, its bytes, and whether they reached the socket
WriteEvent(report, flushed) ==
    [ev |-> "write", report |-> report, bytes |-> OutputReport_write(report),
     flushed |-> flushed]

\* mutant: no flush, the bytes stay in the BufWriter
flush_none(s, report) ==
    [s EXCEPT !.effects = Append(@, WriteEvent(report, FALSE))]

\* stream.flush() in a step s: the bytes the BufWriter holds go to the socket, or the
\* channel fails the write (the failAt-th of the step) and they stay where they are
flush(s, report) ==
    IF Len(Writes(s.effects)) + 1 = s.failAt
    THEN [s EXCEPT !.effects = Append(@, WriteEvent(report, FALSE)), !.err = "Io"]
    ELSE [s EXCEPT !.effects = Append(@, WriteEvent(report, TRUE)), !.stream = <<>>]

\* Connection::write(report) in a step s: report.write puts the encoded bytes in the
\* BufWriter (which holds far more than one report and so does no I/O), then flush
Connection_write(s, report) ==
    flush([s EXCEPT !.stream = @ \o OutputReport_write(report)], report)

(***************************************************************************)
(* wiimote.rs: Wiimote.  A step works on a record s of the Wiimote fields, *)
(* the events of the step so far and the error that ended it, if any.      *)
(***************************************************************************)
\* i16 arithmetic of the signal-strength level
Wrap16(x) == ((x + 32768) % 65536) - 32768
Abs(x) == IF x < 0 THEN -x ELSE x
TruncDiv(a, b) == IF (a < 0) = (b < 0) THEN Abs(a) \div Abs(b) ELSE -(Abs(a) \div Abs(b))

\* (rssi * u8::MAX as i16 / -80) as u8
rssi_level(rssi) == TruncDiv(Wrap16(rssi * 255), -80) % 256

\* !level on a u8
not_u8(level) == 255 - level

\* mutant: the lamp pattern written and not remembered
set_lights_forget(s, enabled) == Connection_write(s, SetLights(enabled))

\* Wiimote::set_lights
set_lights(s, enabled) ==
    Connection_write([s EXCEPT !.prev_lights = enabled], SetLights(enabled))

\* mutant: the request carries all four lamps
send_heartbeat_all_lamps(s, reading) ==
    LET s1 == Connection_write(s, RequestStatus(Lights_all))
    IN IF s1.err # "none" THEN s1
       ELSE LET s2 == [s1 EXCEPT !.awaiting_status = TRUE]
            IN IF s2.mode = "Connection"
               THEN IF ~reading.ok THEN [s2 EXCEPT !.err = "Bluer"]
                    ELSE LET rssi == IF reading.some THEN reading.val ELSE 0
                             level == rssi_level(rssi)
                         IN set_lights(s2, scale(not_u8(level)))
               ELSE s2

\* mutant: awaiting_status set before the request is written
send_heartbeat_flag_first(s, reading) ==
    LET s1 == Connection_write([s EXCEPT !.awaiting_status = TRUE],
                               RequestStatus(s.prev_lights))
    IN IF s1.err # "none" THEN s1
       ELSE IF s1.mode = "Connection"
            THEN IF ~reading.ok THEN [s1 EXCEPT !.err = "Bluer"]
                 ELSE LET rssi == IF reading.some THEN reading.val ELSE 0
                          level == rssi_level(rssi)
                      IN set_lights(s1, scale(not_u8(level)))
            ELSE s1

\* Wiimote::send_heartbeat; reading is what device().rssi() answers
send_heartbeat(s, reading) ==
    LET s1 == Connection_write(s, RequestStatus(s.prev_lights))
    IN IF s1.err # "none" THEN s1
       ELSE LET s2 == [s1 EXCEPT !.awaiting_status = TRUE]
            IN IF s2.mode = "Connection"
               THEN IF ~reading.ok THEN [s2 EXCEPT !.err = "Bluer"]
                    ELSE LET rssi == IF reading.some THEN reading.val ELSE 0
                             level == rssi_level(rssi)
                         IN set_lights(s2, scale(not_u8(level)))
               ELSE s2

\* mutant: the guard of set_mode the other way round (nothing to do in the same mode)
set_mode_if_changed(s, m, reading) ==
    IF s.mode = m THEN s
    ELSE send_heartbeat([s EXCEPT !.mode = m], reading)

\* Wiimote::set_mode
set_mode(s, m, reading) ==
    IF s.mode # m THEN s
    ELSE send_heartbeat([s EXCEPT !.mode = m], reading)

\* keyboard.update(buttons)?: the sink is called; it fails when failAt = -1
update(s, buttons) ==
    LET s0 == [s EXCEPT !.effects = Append(@, [ev |-> "update", buttons |-> buttons])]
    IN IF s.failAt = -1 THEN [s0 EXCEPT !.err = "Uinput"] ELSE s0

\* mutant: every button set but {Two} asks for the battery level
on_buttons_any(s, report, reading) ==
    LET buttons == buttons_of(report)
        s0 == update(s, buttons)
    IN IF s0.err # "none" THEN s0
       ELSE CASE buttons = {"TWO"} -> set_mode(s0, "Connection", reading)
              [] OTHER -> set_mode(s0, "Battery", reading)

\* mutant: the sink called only when a button is down
on_buttons_pressed(s, report, reading) ==
    LET buttons == buttons_of(report)
        s0 == IF buttons = {} THEN s ELSE update(s, buttons)
    IN IF s0.err # "none" THEN s0
       ELSE CASE buttons = {"ONE"} -> set_mode(s0, "Battery", reading)
              [] buttons = {"TWO"} -> set_mode(s0, "Connection", reading)
              [] OTHER -> s0

\* run, on a report: keyboard.update(buttons), then the match on the buttons
on_buttons(s, report, reading) ==
    LET buttons == buttons_of(report)
        s0 == update(s, buttons)
    IN IF s0.err # "none" THEN s0
       ELSE CASE buttons = {"ONE"} -> set_mode(s0, "Battery", reading)
              [] buttons = {"TWO"} -> set_mode(s0, "Connection", reading)
              [] OTHER -> s0

\* run, on a report: the if let InputReport::Status
on_status(s, report) ==
    IF report.variant = "Status"
    THEN IF s.awaiting_status
         THEN LET s1 == [s EXCEPT !.awaiting_status = FALSE]
              IN IF s1.mode = "Battery"
                 THEN set_lights(s1, scale(report.battery))
                 ELSE s1
         ELSE Connection_write(s, SetDrm(s.prev_lights, 48))
    ELSE s

\* the body of the loop of Wiimote::run for a report read_report returned
handle_report(s, report, reading) ==
    LET s1 == on_buttons(s, report, reading)
    IN IF s1.err # "none" THEN s1 ELSE on_status(s1, report)

(***************************************************************************)
(* The peer: the frames a Wii Remote sends on the data channel.            *)
(***************************************************************************)
Hi(field) == field \div 256
Lo(field) == field % 256
Fill(n, b) == [i \in 1..n |-> b]

\* marker, tag 0x20, button field, status byte, two reserved bytes, battery
StatusFrame(field, status, rsv, battery) ==
    <<161, 32, Hi(field), Lo(field), status, rsv, rsv, battery>>
\* marker, tag 0x22, button field, the command answered, the result code
ResultFrame(field, response_to, code) ==
    <<161, 34, Hi(field), Lo(field), response_to, code>>
\* the bytes a frame carries after its tag
PayloadLen(tag) ==
    CASE tag = 32 -> 6
      [] tag = 34 -> 4
      [] tag = 48 -> 2
      [] tag = 49 -> 5
      [] tag = 50 -> 10
      [] tag = 51 -> 17
      [] tag \in (52..55) \cup (61..63) -> 21

\* marker, data report tag, button field (two bytes of other data under 0x3D),
\* then the rest of the tag's payload
DataFrame(tag, field, fill) ==
    <<161, tag, Hi(field), Lo(field)>> \o Fill(PayloadLen(tag) - 2, fill)

\* the tags the remote's protocol defines for the reports parsed here
SupportedTags == {32, 34} \cup (48..55) \cup (61..63)

\* what the peer sends in a session: status replies (no button, One, Two), button
\* reports, an acknowledgement, and two frames the codec must refuse
PeerFrames ==
    { StatusFrame(0, 16, 0, 192), StatusFrame(2, 240, 0, 100), StatusFrame(1, 0, 0, 0),
      DataFrame(48, 2, 0), DataFrame(48, 1, 0), DataFrame(48, 2048, 0),
      <<165, 48, 0, 0>>, <<161, 153, 0, 0>> }

\* the frame a peer that goes away was sending
AbortFrames == { StatusFrame(0, 16, 0, 192) }

\* what device().rssi() may answer: an error, no reading, or a reading
Readings ==
    { [ok |-> FALSE, some |-> FALSE, val |-> 0],
      [ok |-> TRUE, some |-> FALSE, val |-> 0],
      [ok |-> TRUE, some |-> TRUE, val |-> 0],
      [ok |-> TRUE, some |-> TRUE, val |-> -40],
      [ok |-> TRUE, some |-> TRUE, val |-> -80] }

\* device().rssi() is asked only by send_heartbeat in Connection mode
ReadingsIn(m) == IF m = "Connection" THEN Readings ELSE {[ok |-> TRUE, some |-> FALSE, val |-> 0]}

\* which write of a step the channel fails: none (0), the first, the second
WriteFaults == {0, 1, 2}

\* what fails in a step that handles a report: a write, or the sink (-1)
Faults == WriteFaults \cup {-1}

\* the faults of a step of read_report that parses the bytes seen: there is something
\* to fail only when they hold a report
FaultsOn(seen) == IF parse(seen).ok THEN Faults ELSE {0}

\* how many of the bytes w waiting on the channel one read_buf may return in a
\* session: a few bytes, a whole short or long frame, or all there is
ReadSizes(w) == {n \in 1..Len(w) : n \in {1, 2, 3, 4, 8} \/ n = Len(w)}

(***************************************************************************)
(* The session: Wiimote::new on an established Connection, then run.       *)
(***************************************************************************)
Idle == [op |-> "idle"]

\* a step of run: the branch of the select! taken; for read_report, whether it read
\* the channel ("none", "data", "eof"), the bytes its last parse_report saw, whether
\* those bytes were put together from the buffer and a channel read, whether a
\* heartbeat tick had won the select! over the read that was gathering them, and the
\* outcome
Step(branch, read, seen, joined, raced, outcome) ==
    [branch |-> branch, read |-> read, parsed |-> seen, joined |-> joined,
     raced |-> raced, outcome |-> outcome]

\* main between connections: the arguments, have_conn, where it is ("main": the head
\* of the loop; "discover", "pair", "pairing", "connect", "listen": inside those
\* calls; "returned": discover() or listen() has returned ret), the agents registered
\* with the session, what the agent handle variable holds ("none", a "future" never
\* polled, or the "handle" of a registered agent), whether the discovery session is
\* open, the device at hand, the channels held, and the last step
NoDevice == [addr |-> <<>>]
Host(args, have_conn) ==
    [args |-> args, have_conn |-> have_conn, at |-> "main", agents |-> {},
     handle |-> "none", discovering |-> FALSE, device |-> NoDevice, streams |-> {},
     ret |-> "running", last |-> [op |-> "none"]]

\* main with its first connection, found by discover() without pairing
Connected ==
    [Host([discover |-> TRUE, pair |-> FALSE], TRUE) EXCEPT
        !.at = "returned", !.ret = "Some", !.streams = {"control", "data"}]

\* a remote that sends what it likes, and one that answers each RequestStatus
AnyPeer == [answers |-> FALSE, owed |-> 0]
AnsweringPeer == [answers |-> TRUE, owed |-> 0]

\* Connection::new and Wiimote::new
InitSession ==
    /\ buffer = <<>>
    /\ stream = <<>>
    /\ wire = <<>>
    /\ peerClosed = FALSE
    /\ mode = "Battery"
    /\ prev_lights = Lights_all
    /\ awaiting_status = FALSE
    /\ pc = "select"
    /\ result = "running"
    /\ shown = Lights_all
    /\ step = Step("new", "none", <<>>, FALSE, FALSE, "none")
    /\ pre = [mode |-> "Battery", prev_lights |-> Lights_all, awaiting_status |-> FALSE]
    /\ effects = <<>>
    /\ sent = <<>>
    /\ received = <<>>

\* main has its first connection and has made the Wiimote; run starts
Init ==
    /\ InitSession
    /\ exit = "running"
    /\ call = Idle
    /\ ret = Idle
    /\ host = Connected
    /\ peer = AnyPeer

\* the Wiimote as a step finds it
Enter(failAt) ==
    [mode |-> mode, prev_lights |-> prev_lights, awaiting_status |-> awaiting_status,
     stream |-> stream, effects |-> <<>>, err |-> "none", failAt |-> failAt]

Pre == [mode |-> mode, prev_lights |-> prev_lights, awaiting_status |-> awaiting_status]

\* the lamp pattern of the last SetLights among the events evs, or before if none
LastLights(evs, before) ==
    LET w == SelectSeq(evs, LAMBDA e : e.ev = "write" /\ e.report.cmd = "SetLights")
    IN IF w = <<>> THEN before ELSE w[Len(w)].report.lights

\* the remote after the writes of a step: one that answers owes a Status frame for
\* each RequestStatus that reached the socket
Heard(p, evs) ==
    LET asked == SelectSeq(evs, LAMBDA e : e.ev = "write" /\ e.flushed
                                            /\ e.report.cmd = "RequestStatus")
    IN IF p.answers THEN [p EXCEPT !.owed = @ + Len(asked)] ELSE p

\* the Wiimote as a step leaves it; an error ends run (the ? operator)
Leave(s) ==
    /\ mode' = s.mode
    /\ prev_lights' = s.prev_lights
    /\ awaiting_status' = s.awaiting_status
    /\ stream' = s.stream
    /\ shown' = LastLights(s.effects, shown)
    /\ effects' = s.effects
    /\ pc' = IF s.err = "none" THEN "select" ELSE "returned"
    /\ result' = IF s.err = "none" THEN "running" ELSE s.err
    /\ exit' = exit
    /\ peer' = Heard(peer, s.effects)

\* run returns r without touching the Wiimote
Return(r) ==
    /\ pc' = "returned"
    /\ result' = r
    /\ effects' = <<>>
    /\ UNCHANGED <<wiiVars, outVars, exit, peer>>

\* the last step of run was a heartbeat tick, taken while read_report had bytes of
\* an unfinished frame in the buffer
Raced == step.branch = "heartbeat" /\ buffer # <<>>

\* read_report answers what parse_report made of the bytes seen: p (Some or Err)
Deliver(p, read, seen, joined, reading, failAt) ==
    /\ buffer' = p.buffer
    /\ pre' = Pre
    /\ IF p.kind = "Some"
       THEN /\ step' = Step("read_report", read, seen, joined, Raced, "report")
            /\ received' = Append(received, p.report)
            /\ Leave(handle_report(Enter(failAt), p.report, reading))
       ELSE /\ step' = Step("read_report", read, seen, joined, Raced, "error")
            /\ received' = received
            /\ Return(p.err.kind)

\* read_report finds a report (or a fatal error) in the bytes already buffered
ReadReportBuffered(reading, failAt) ==
    /\ pc = "select"
    /\ parse_report(buffer).kind # "None"
    /\ Deliver(parse_report(buffer), "none", buffer, FALSE, reading, failAt)
    /\ UNCHANGED <<wire, peerClosed, sent, harnessVars, host>>

\* mutant: the bytes of a read that did not complete a report are not kept
ChannelRead_local(n, reading, failAt) ==
    /\ pc = "select"
    /\ parse_report(buffer).kind = "None"
    /\ n \in 1..Len(wire)
    /\ wire' = SubSeq(wire, n + 1, Len(wire))
    /\ LET seen == buffer \o SubSeq(wire, 1, n)
           p == parse_report(seen)
       IN IF p.kind = "None"
          THEN /\ buffer' = buffer
               /\ pre' = Pre
               /\ step' = Step("read_report", "data", seen, buffer # <<>>, Raced,
                               "incomplete")
               /\ effects' = <<>>
               /\ UNCHANGED <<wiiVars, outVars, pc, result, exit, received, peer>>
          ELSE Deliver(p, "data", seen, buffer # <<>>, reading, failAt)
    /\ UNCHANGED <<peerClosed, sent, harnessVars, host>>

\* mutant: the channel read although the buffer holds a complete report
ChannelRead_eager(n, reading, failAt) ==
    /\ pc = "select"
    /\ n \in 1..Len(wire)
    /\ wire' = SubSeq(wire, n + 1, Len(wire))
    /\ LET seen == buffer \o SubSeq(wire, 1, n)
           p == parse_report(seen)
       IN IF p.kind = "None"
          THEN /\ buffer' = p.buffer
               /\ pre' = Pre
               /\ step' = Step("read_report", "data", seen, buffer # <<>>, Raced,
                               "incomplete")
               /\ effects' = <<>>
               /\ UNCHANGED <<wiiVars, outVars, pc, result, exit, received, peer>>
          ELSE Deliver(p, "data", seen, buffer # <<>>, reading, failAt)
    /\ UNCHANGED <<peerClosed, sent, harnessVars, host>>

\* read_report, with no report buffered, reads n bytes from the channel into the
\* buffer and parses again
ChannelRead(n, reading, failAt) ==
    /\ pc = "select"
    /\ parse_report(buffer).kind = "None"
    /\ n \in 1..Len(wire)
    /\ wire' = SubSeq(wire, n + 1, Len(wire))
    /\ LET seen == buffer \o SubSeq(wire, 1, n)
           p == parse_report(seen)
       IN IF p.kind = "None"
          THEN /\ buffer' = p.buffer
               /\ pre' = Pre
               /\ step' = Step("read_report", "data", seen, buffer # <<>>, Raced,
                               "incomplete")
               /\ effects' = <<>>
               /\ UNCHANGED <<wiiVars, outVars, pc, result, exit, received, peer>>
          ELSE Deliver(p, "data", seen, buffer # <<>>, reading, failAt)
    /\ UNCHANGED <<peerClosed, sent, harnessVars, host>>

\* mutant: every zero-length read taken for a clean end of stream
ChannelEof_clean ==
    /\ pc = "select"
    /\ parse_report(buffer).kind = "None"
    /\ wire = <<>>
    /\ peerClosed
    /\ pre' = Pre
    /\ step' = Step("read_report", "eof", buffer, FALSE, Raced, "closed")
    /\ Return("Ok")
    /\ UNCHANGED <<connVars, sent, received, harnessVars, host>>

\* a zero-length read: the peer closed the channel
ChannelEof ==
    /\ pc = "select"
    /\ parse_report(buffer).kind = "None"
    /\ wire = <<>>
    /\ peerClosed
    /\ pre' = Pre
    /\ IF buffer = <<>>
       THEN /\ step' = Step("read_report", "eof", buffer, FALSE, Raced, "closed")
            /\ Return("Ok")
       ELSE /\ step' = Step("read_report", "eof", buffer, FALSE, Raced, "reset")
            /\ Return("ConnectionReset")
    /\ UNCHANGED <<connVars, sent, received, harnessVars, host>>

\* heartbeat.tick() wins the select!
HeartbeatTick(reading, failAt) ==
    /\ pc = "select"
    /\ pre' = Pre
    /\ step' = Step("heartbeat", "none", <<>>, FALSE, FALSE, "sent")
    /\ Leave(send_heartbeat(Enter(failAt), reading))
    /\ UNCHANGED <<connVars, sent, received, harnessVars, host>>

\* ctrl_c() wins the select!
CtrlC ==
    /\ pc = "select"
    /\ pre' = Pre
    /\ step' = Step("ctrl_c", "none", <<>>, FALSE, FALSE, "shutdown")
    /\ Return("Ok")
    /\ UNCHANGED <<connVars, sent, received, harnessVars, host>>

\* the peer sends a frame
PeerSend(f) ==
    /\ pc = "select"
    /\ ~peerClosed
    /\ Len(sent) < MaxFrames
    /\ wire' = wire \o f
    /\ sent' = Append(sent, f)
    /\ UNCHANGED <<buffer, peerClosed, wiiVars, outVars, pc, result, exit, step, pre,
                   effects, received, harnessVars, host, peer>>

\* the peer goes away after the first n bytes of a frame
PeerAbort(f, n) ==
    /\ pc = "select"
    /\ ~peerClosed
    /\ Len(sent) < MaxFrames
    /\ n \in 1..(Len(f) - 1)
    /\ wire' = wire \o SubSeq(f, 1, n)
    /\ peerClosed' = TRUE
    /\ UNCHANGED <<buffer, wiiVars, outVars, runVars, harnessVars, host, peer>>

\* the peer closes the channel between frames
PeerClose ==
    /\ pc = "select"
    /\ ~peerClosed
    /\ peerClosed' = TRUE
    /\ UNCHANGED <<buffer, wire, wiiVars, outVars, runVars, harnessVars, host, peer>>

(***************************************************************************)
(* main.rs: the loop of main around Wiimote::run.                          *)
(***************************************************************************)
\* err.downcast_ref::<io::Error>(): the failures of run that are a std::io::Error
IoErrors == {"Io", "ConnectionReset"}

\* the end of an iteration of main's loop: the Wiimote and its Connection are dropped
Dropped ==
    /\ buffer' = <<>>
    /\ stream' = <<>>
    /\ wire' = <<>>
    /\ peerClosed' = FALSE
    /\ mode' = "Battery"
    /\ prev_lights' = Lights_all
    /\ awaiting_status' = FALSE
    /\ shown' = Lights_all
    /\ pre' = [mode |-> "Battery", prev_lights |-> Lights_all, awaiting_status |-> FALSE]
    /\ effects' = <<>>
    /\ sent' = <<>>
    /\ received' = <<>>
    /\ peer' = [peer EXCEPT !.owed = 0]

\* mutant: every failure of run taken for a disconnection
main_run_returned_retry ==
    /\ pc = "returned"
    /\ pc' = "connect"
    /\ exit' = exit
    /\ step' = Step("main", "none", <<>>, FALSE, FALSE, "restart")
    /\ Dropped
    /\ UNCHANGED <<result, harnessVars, host>>

\* main, when wiimote.run returns: Ok and I/O failures go round the loop again, any
\* other failure is returned from main
main_run_returned ==
    /\ pc = "returned"
    /\ IF result = "Ok" \/ result \in IoErrors
       THEN /\ pc' = "connect"
            /\ exit' = exit
            /\ step' = Step("main", "none", <<>>, FALSE, FALSE, "restart")
       ELSE /\ pc' = "exited"
            /\ exit' = result
            /\ step' = Step("main", "none", <<>>, FALSE, FALSE, "abort")
    /\ Dropped
    /\ UNCHANGED <<result, harnessVars, host>>

\* what discover() or listen() may answer: a connection, None on shutdown, a failure
\* of the adapter, of pairing, or of opening the channels
ConnectOutcomes == {"Some", "None", "Bluer", "Pair", "Io"}

\* main, at the head of its loop: discover() or listen(), then Wiimote::new and run
main_connect(outcome) ==
    /\ pc = "connect"
    /\ IF outcome = "Some"
       THEN /\ pc' = "select"
            /\ result' = "running"
            /\ exit' = exit
            /\ step' = Step("new", "none", <<>>, FALSE, FALSE, "none")
       ELSE /\ pc' = "exited"
            /\ result' = result
            /\ exit' = IF outcome = "None" THEN "Ok" ELSE outcome
            /\ step' = Step("main", "none", <<>>, FALSE, FALSE, "exit")
    /\ UNCHANGED <<connVars, wiiVars, outVars, pre, effects, sent, received,
                   harnessVars, host, peer>>

Next ==
    \/ \E reading \in ReadingsIn(mode), failAt \in FaultsOn(buffer) :
          ReadReportBuffered(reading, failAt)
    \/ \E n \in ReadSizes(wire), reading \in ReadingsIn(mode) :
          \E failAt \in FaultsOn(buffer \o SubSeq(wire, 1, n)) :
             ChannelRead(n, reading, failAt)
    \/ ChannelEof
    \/ \E reading \in ReadingsIn(mode), failAt \in WriteFaults :
          HeartbeatTick(reading, failAt)
    \/ CtrlC
    \/ \E f \in PeerFrames : PeerSend(f)
    \/ \E f \in AbortFrames : \E n \in 1..(Len(f) - 1) : PeerAbort(f, n)
    \/ PeerClose
    \/ main_run_returned
    \/ \E outcome \in ConnectOutcomes : main_connect(outcome)

\* main from its first connection on: sessions of wiimote.run, one after the other
Spec == Init /\ [][Next]_vars

(***************************************************************************)
(* main.rs: inside discover(), pair() and listen().  The adapter, the      *)
(* devices and the remotes answer what they like, drawn from small sets.   *)
(***************************************************************************)
\* Args: --pair without --discover is refused before the loop
ArgsSet == {a \in [discover : BOOLEAN, pair : BOOLEAN] : a.discover \/ ~a.pair}

\* Bluetooth addresses, six bytes each: the adapter's and two remotes'
AdapterAddress == <<1, 2, 3, 4, 5, 6>>
RemoteAddresses == {<<17, 18, 19, 20, 21, 22>>, <<33, 34, 35, 36, 37, 38>>}

\* the aliases discover() takes for a Wiimote, and one it does not
WiimoteAliases == {"Nintendo RVL-CNT-01", "Nintendo RVL-CNT-01-TR"}
Aliases == WiimoteAliases \cup {"Nintendo RVL-WBC-01"}

\* the events of the discovery stream
AdapterEvents ==
    { [kind |-> "DeviceAdded", addr |-> a] : a \in RemoteAddresses }
      \cup { [kind |-> "DeviceRemoved", addr |-> a] : a \in RemoteAddresses }
      \cup { [kind |-> "PropertyChanged", addr |-> <<>>] }

Reverse(q) == [i \in 1..Len(q) |-> q[Len(q) + 1 - i]]

\* session.register_agent(agent): a future; the agent is registered when the future
\* is awaited, and the caller then holds its handle
register_agent(h, kind, awaited) ==
    IF awaited
    THEN [h EXCEPT !.agents = @ \cup {kind}, !.handle = "handle"]
    ELSE [h EXCEPT !.handle = "future"]

\* mutant: the handle forgotten, the agent left registered
drop_handle_leak(h, kind) == [h EXCEPT !.handle = "none"]

\* the agent handle variable dropped (drop(agent_handle), or the end of its scope):
\* a handle unregisters its agent, a future that was never polled has nothing to undo
drop_handle(h, kind) ==
    IF h.handle = "handle"
    THEN [h EXCEPT !.agents = @ \ {kind}, !.handle = "none"]
    ELSE [h EXCEPT !.handle = "none"]

\* discover() or listen() returns r; what it held is dropped
Returns(h, r, last) ==
    [h EXCEPT !.at = "returned", !.ret = r, !.discovering = FALSE, !.last = last,
              !.streams = IF r = "Some" THEN {"control", "data"} ELSE {},
              !.have_conn = IF r = "Some" THEN TRUE ELSE @]

\* let should_discover = args.discover && (!args.pair || !have_conn)
should_discover(h) == h.args.discover /\ (~h.args.pair \/ ~h.have_conn)

\* main calls discover(): the discovery session is opened
main_discover(ok) ==
    /\ host.at = "main"
    /\ should_discover(host)
    /\ host' = IF ok
               THEN [host EXCEPT !.at = "discover", !.discovering = TRUE,
                                 !.device = NoDevice, !.ret = "running",
                                 !.last = [op |-> "main_discover", ok |-> TRUE]]
               ELSE Returns(host, "Bluer", [op |-> "main_discover", ok |-> FALSE])
    /\ UNCHANGED <<connVars, wiiVars, outVars, runVars, harnessVars, peer>>

\* mutant: a device taken for its alias alone
discover_accepts_alias(alias, rssi) == alias \in WiimoteAliases

\* discover: the alias is a Wiimote's and the device reports a reading
discover_accepts(alias, rssi) == alias \in WiimoteAliases /\ rssi

\* discover: the stream yields an event; the device answers alias and rssi (a reading
\* or none), or a query fails
discover_event(event, alias, rssi, ok) ==
    /\ host.at = "discover"
    /\ LET last == [op |-> "discover_event", event |-> event, alias |-> alias,
                    rssi |-> rssi, ok |-> ok]
       IN host' =
            IF event.kind # "DeviceAdded" THEN [host EXCEPT !.last = last]
            ELSE IF ~ok THEN Returns(host, "Bluer", last)
            ELSE IF ~discover_accepts(alias, rssi) THEN [host EXCEPT !.last = last]
            ELSE [host EXCEPT !.discovering = FALSE,
                              !.device = [addr |-> event.addr],
                              !.at = IF host.args.pair THEN "pair" ELSE "connect",
                              !.last = last]
    /\ UNCHANGED <<connVars, wiiVars, outVars, runVars, harnessVars, peer>>

\* discover: ctrl_c() wins the select!, or the stream has ended
discover_break(why) ==
    /\ host.at = "discover"
    /\ host' = Returns(host, "None", [op |-> "discover_break", why |-> why])
    /\ UNCHANGED <<connVars, wiiVars, outVars, runVars, harnessVars, peer>>

\* the agent of pair(): the PIN is the adapter's address reversed, given for the
\* device being paired and for no other
request_pin_code(remote_addr, addr, request_device) ==
    IF request_device = remote_addr
    THEN [answer |-> "pin", pin |-> Reverse(addr)]
    ELSE [answer |-> "Rejected", pin |-> <<>>]

\* pair(): a paired device needs nothing; otherwise the agent is made and
\* register_agent called, its future kept in _handle and never awaited
pair_begin(paired, ok) ==
    /\ host.at = "pair"
    /\ LET last == [op |-> "pair_begin", paired |-> paired, ok |-> ok]
       IN host' =
            IF ~ok THEN Returns(host, "Bluer", last)
            ELSE IF paired THEN [host EXCEPT !.at = "connect", !.last = last]
            ELSE [register_agent(host, "pin", FALSE) EXCEPT
                     !.at = "pairing", !.last = last]
    /\ UNCHANGED <<connVars, wiiVars, outVars, runVars, harnessVars, peer>>

\* while device.pair() runs, the host asks for the PIN of a device: the registered
\* agent answers, if there is one
pin_request(request_device) ==
    /\ host.at = "pairing"
    /\ host' = [host EXCEPT !.last =
                  [op |-> "pin_request", device |-> request_device,
                   reply |-> IF "pin" \in host.agents
                             THEN request_pin_code(host.device.addr, AdapterAddress,
                                                   request_device)
                             ELSE [answer |-> "no agent", pin |-> <<>>]]]
    /\ UNCHANGED <<connVars, wiiVars, outVars, runVars, harnessVars, peer>>

\* device.pair() returns, and pair() with it: _handle is dropped
pair_end(ok) ==
    /\ host.at = "pairing"
    /\ LET last == [op |-> "pair_end", ok |-> ok]
           h == drop_handle(host, "pin")
       IN host' = IF ok THEN [h EXCEPT !.at = "connect", !.last = last]
                  ELSE Returns(h, "Pair", last)
    /\ UNCHANGED <<connVars, wiiVars, outVars, runVars, harnessVars, peer>>

\* Connection::connect(device): both channels are opened, or one fails
connect(ok) ==
    /\ host.at = "connect"
    /\ host' = Returns(host, IF ok THEN "Some" ELSE "Io", [op |-> "connect", ok |-> ok])
    /\ UNCHANGED <<connVars, wiiVars, outVars, runVars, harnessVars, peer>>

\* main calls listen(): the agent is registered (awaited), then the two listeners are
\* bound; a failure of either returns, dropping what is held
main_listen(outcome) ==
    /\ host.at = "main"
    /\ ~should_discover(host)
    /\ LET last == [op |-> "main_listen", outcome |-> outcome]
           h == register_agent([host EXCEPT !.ret = "running"], "auth", TRUE)
       IN host' =
            CASE outcome = "agent" -> Returns(host, "Bluer", last)
              [] outcome = "bind" -> Returns(drop_handle(h, "auth"), "Io", last)
              [] OTHER -> [h EXCEPT !.at = "listen", !.device = NoDevice, !.last = last]
    /\ UNCHANGED <<connVars, wiiVars, outVars, runVars, harnessVars, peer>>

\* mutant: a remote taken whether paired or not
listen_accepts_unpaired(control_addr, data_addr, paired) == control_addr = data_addr

\* listen: both channels come from one remote, and that device is paired
listen_accepts(control_addr, data_addr, paired) == control_addr = data_addr /\ paired

\* listen: both listeners have accepted a connection (try_join), or one has failed;
\* the device answers whether it is paired, or the query fails
listen_accept(control_addr, data_addr, paired, ok) ==
    /\ host.at = "listen"
    /\ LET last == [op |-> "listen_accept", control |-> control_addr,
                    data |-> data_addr, paired |-> paired, ok |-> ok]
       IN host' =
            IF ~ok THEN Returns(drop_handle(host, "auth"), "Io", last)
            ELSE IF ~listen_accepts(control_addr, data_addr, paired)
            THEN [host EXCEPT !.streams = {}, !.last = last]
            ELSE [Returns(drop_handle(host, "auth"), "Some", last) EXCEPT
                     !.device = [addr |-> control_addr]]
    /\ UNCHANGED <<connVars, wiiVars, outVars, runVars, harnessVars, peer>>

\* listen: ctrl_c() wins the select!
listen_break ==
    /\ host.at = "listen"
    /\ host' = Returns(drop_handle(host, "auth"), "None", [op |-> "listen_break"])
    /\ UNCHANGED <<connVars, wiiVars, outVars, runVars, harnessVars, peer>>

\* the session over the connection has ended and main goes round its loop
main_loop ==
    /\ host.at = "returned"
    /\ host.ret = "Some"
    /\ host' = [host EXCEPT !.at = "main", !.streams = {}, !.last = [op |-> "main_loop"]]
    /\ UNCHANGED <<connVars, wiiVars, outVars, runVars, harnessVars, peer>>

\* main at the head of its loop, before the first connection
InitHost ==
    /\ InitSession
    /\ exit = "running"
    /\ call = Idle
    /\ ret = Idle
    /\ host \in { Host(args, FALSE) : args \in ArgsSet }
    /\ peer = AnyPeer

NextHost ==
    \/ \E ok \in BOOLEAN : main_discover(ok)
    \/ \E event \in AdapterEvents, alias \in Aliases, rssi \in BOOLEAN, ok \in BOOLEAN :
          discover_event(event, alias, rssi, ok)
    \/ \E why \in {"ctrl_c", "end"} : discover_break(why)
    \/ \E paired \in BOOLEAN, ok \in BOOLEAN : pair_begin(paired, ok)
    \/ \E request_device \in RemoteAddresses : pin_request(request_device)
    \/ \E ok \in BOOLEAN : pair_end(ok)
    \/ \E ok \in BOOLEAN : connect(ok)
    \/ \E outcome \in {"agent", "bind", "ok"} : main_listen(outcome)
    \/ \E control_addr \in RemoteAddresses, data_addr \in RemoteAddresses,
          paired \in BOOLEAN, ok \in BOOLEAN :
          listen_accept(control_addr, data_addr, paired, ok)
    \/ listen_break
    \/ main_loop

\* main between connections: discover() or listen(), as often as a session ends
SpecHost == InitHost /\ [][NextHost]_vars

(***************************************************************************)
(* A session with a remote that answers: one Status frame for each         *)
(* RequestStatus it has received, button reports in between, and no other  *)
(* Status frame.                                                           *)
(***************************************************************************)
\* the button reports of the answering remote: {One}, {Two}, {Up}
ButtonFrames == { DataFrame(48, f, 0) : f \in {2, 1, 2048} }

\* the Status frame of a reply: no button, battery 192
ReplyFrame == StatusFrame(0, 16, 0, 192)

\* the remote answers a RequestStatus it has not answered yet
PeerReply ==
    /\ pc = "select"
    /\ peer.answers
    /\ peer.owed > 0
    /\ Len(sent) < MaxFrames
    /\ wire' = wire \o ReplyFrame
    /\ sent' = Append(sent, ReplyFrame)
    /\ peer' = [peer EXCEPT !.owed = @ - 1]
    /\ UNCHANGED <<buffer, peerClosed, wiiVars, outVars, pc, result, exit, step, pre,
                   effects, received, harnessVars, host>>

\* a heartbeat tick, while the remote owes fewer than MaxOwed replies
PeerTick ==
    /\ peer.owed < MaxOwed
    /\ HeartbeatTick([ok |-> TRUE, some |-> FALSE, val |-> 0], 0)

InitPeer ==
    /\ InitSession
    /\ exit = "running"
    /\ call = Idle
    /\ ret = Idle
    /\ host = Connected
    /\ peer = AnsweringPeer

NextPeer ==
    \/ PeerTick
    \/ PeerReply
    \/ \E f \in ButtonFrames : PeerSend(f)
    \/ \E reading \in ReadingsIn(mode) : ReadReportBuffered(reading, 0)
    \/ \E n \in ReadSizes(wire), reading \in ReadingsIn(mode) : ChannelRead(n, reading, 0)

\* one session of wiimote.run with the answering remote, no failure of the channel
SpecPeer == InitPeer /\ [][NextPeer]_vars

(***************************************************************************)
(* Bursts: the remote sends up to MaxBurst frames back to back, and each   *)
(* channel read takes any number of the bytes that have arrived.           *)
(***************************************************************************)
\* a button report (4 bytes) and a Status frame (8 bytes)
BurstFrames == {DataFrame(48, 2048, 0), ReplyFrame}

\* the remote sends one more frame of the burst
BurstSend(f) ==
    /\ pc = "select"
    /\ Len(sent) < MaxBurst
    /\ wire' = wire \o f
    /\ sent' = Append(sent, f)
    /\ UNCHANGED <<buffer, peerClosed, wiiVars, outVars, pc, result, exit, step, pre,
                   effects, received, harnessVars, host, peer>>

NextBurst ==
    \/ \E f \in BurstFrames : BurstSend(f)
    \/ \E reading \in ReadingsIn(mode) : ReadReportBuffered(reading, 0)
    \/ \E n \in 1..Len(wire), reading \in ReadingsIn(mode) : ChannelRead(n, reading, 0)

\* one session of wiimote.run reading bursts, no failure of the channel
SpecBurst == Init /\ [][NextBurst]_vars

(***************************************************************************)
(* Short sessions over every kind of frame: one frame of any tag, or any   *)
(* first byte, alone or behind a button report, delivered in pieces.       *)
(***************************************************************************)
\* a valid frame of each tag the codec accepts, with and without buttons
ValidFrames ==
    { StatusFrame(f, 16, 0, 192) : f \in {0, 2, 4100} }
      \cup { ResultFrame(f, 21, 0) : f \in {0, 2, 4100} }
      \cup { DataFrame(tag, f, 0) : tag \in DataReportIds, f \in {0, 2, 4100} }

\* a frame under every tag the codec does not know
UnknownTagFrames == { <<161, tag, 0, 2>> : tag \in (0..255) \ SupportedTags }

\* a frame behind every first byte that is not the marker
BadMarkerFrames == { <<m, 48, 0, 2>> : m \in (0..255) \ {161} }

StreamFrames == ValidFrames \cup UnknownTagFrames \cup BadMarkerFrames

\* the button report that may come first
LeadFrame == DataFrame(48, 2048, 0)

\* the peer sends the lead frame
StreamLead ==
    /\ sent = <<>>
    /\ PeerSend(LeadFrame)

\* the peer sends the frame the session is about, and nothing after it
StreamSend(f) ==
    /\ sent \in {<<>>, <<LeadFrame>>}
    /\ wire' = wire \o f
    /\ sent' = Append(sent, f)
    /\ peerClosed' = TRUE
    /\ UNCHANGED <<buffer, wiiVars, outVars, pc, result, exit, step, pre, effects,
                   received, harnessVars, host, peer>>

NextStream ==
    \/ StreamLead
    \/ \E f \in (IF pc = "select" /\ ~peerClosed THEN StreamFrames ELSE {}) : StreamSend(f)
    \/ \E reading \in ReadingsIn(mode), failAt \in {0} :
          ReadReportBuffered(reading, failAt)
    \/ \E n \in 1..Len(wire), reading \in ReadingsIn(mode), failAt \in {0} :
          ChannelRead(n, reading, failAt)
    \/ ChannelEof

SpecStream == Init /\ [][NextStream]_vars

(***************************************************************************)
(* The codec applied to inputs drawn from pools: a frame is drawn as the   *)
(* fields a Wii Remote puts in it, and laid out as the remote lays it out. *)
(***************************************************************************)
\* the bit of the button field the remote sets for each button
FieldBit ==
    [TWO |-> 0, ONE |-> 1, B |-> 2, A |-> 3, MINUS |-> 4, HOME |-> 7,
     LEFT |-> 8, RIGHT |-> 9, DOWN |-> 10, UP |-> 11, PLUS |-> 12]

Pressed ==
    { {}, {"UP"}, {"B"}, {"ONE"}, {"TWO"}, {"PLUS", "HOME", "B"}, {"PLUS", "LEFT", "B"},
      DOMAIN FieldBit }

\* the bits of the button field that are no button: 5, 6, 13, 14, 15
JunkBits == {0, 57440}

StatusFlags == { {}, {"ext"}, {"spk", "ir"}, {"ext", "spk", "ir", "low"} }

FlagBits(flags) ==
    (IF "ir" \in flags THEN 8 ELSE 0) + (IF "spk" \in flags THEN 4 ELSE 0)
      + (IF "ext" \in flags THEN 2 ELSE 0) + (IF "low" \in flags THEN 1 ELSE 0)

Given(tag, pressed, junk, lights, flags, battery, response_to, code, fill) ==
    [tag |-> tag, pressed |-> pressed, junk |-> junk, lights |-> lights,
     flags |-> flags, battery |-> battery, response_to |-> response_to,
     code |-> code, fill |-> fill]

StatusGivens ==
    { Given(32, p, j, l, fl, bat, 0, 0, fill) :
        p \in Pressed, j \in JunkBits, l \in {0, 9, 15}, fl \in StatusFlags,
        bat \in {0, 200, 255}, fill \in {0, 255} }

ResultGivens ==
    { Given(34, p, j, 0, {}, 0, r, c, 0) :
        p \in Pressed, j \in JunkBits, r \in {17, 21}, c \in {0, 3} }

DataGivens ==
    { Given(tag, p, j, 0, {}, 0, 0, 0, fill) :
        tag \in DataReportIds, p \in Pressed, j \in JunkBits, fill \in {0, 255} }

Givens == StatusGivens \cup ResultGivens \cup DataGivens

\* the frame the remote sends for the fields g
FrameOf(g) ==
    LET field == SumBits(FieldBit, g.pressed) + g.junk
    IN CASE g.tag = 32 ->
              StatusFrame(field, g.lights * 16 + FlagBits(g.flags), g.fill, g.battery)
         [] g.tag = 34 -> ResultFrame(field, g.response_to, g.code)
         [] OTHER -> DataFrame(g.tag, field, g.fill)

\* the bytes that may follow a frame in the buffer
TrailBytes == {161, 32, 255}
Trails == UNION { [1..k -> TrailBytes] : k \in 0..MaxTrail }

\* the 16-bit fields from_common is applied to: every single bit, and some more
CommonFields == { 2 ^ i : i \in 0..15 } \cup {0, 2048, 4, 4228, 4356, 8095, 65535}

\* InputReport::parse on the frame of g followed by trail
ParseFrame(g, trail) ==
    /\ call = Idle
    /\ call' = [op |-> "parse", given |-> g, trail |-> trail]
    /\ ret' = parse(FrameOf(g) \o trail)
    /\ UNCHANGED <<connVars, wiiVars, outVars, runVars, host, peer>>

\* Lights::scale on a u8
Scale(value) ==
    /\ call = Idle
    /\ call' = [op |-> "scale", value |-> value]
    /\ ret' = scale(value)
    /\ UNCHANGED <<connVars, wiiVars, outVars, runVars, host, peer>>

\* Buttons::from_common on a cursor at a button field
FromCommon(field) ==
    /\ call = Idle
    /\ call' = [op |-> "from_common", field |-> field]
    /\ ret' = from_common(Cursor(<<Hi(field), Lo(field)>>))
    /\ UNCHANGED <<connVars, wiiVars, outVars, runVars, host, peer>>

\* the commands encoded: every lamp pattern under each kind, some reporting modes
DrmModes == {0, 48, 49, 255}
OutputReports ==
    { SetLights(l) : l \in 0..15 } \cup { RequestStatus(l) : l \in 0..15 }
      \cup { SetDrm(l, m) : l \in 0..15, m \in DrmModes }

\* OutputReport::write on a command
Encode(report) ==
    /\ call = Idle
    /\ call' = [op |-> "encode", report |-> report]
    /\ ret' = OutputReport_write(report)
    /\ UNCHANGED <<connVars, wiiVars, outVars, runVars, host, peer>>

\* the signal-strength readings the lamp computation is applied to: Device::rssi
\* answers an i16, and send_heartbeat takes whatever it answers
I16_MIN == -32768
I16_MAX == 32767
RssiValues == (-135..135) \cup {I16_MIN, -20000, -1000, -257, -256, 256, 257, 1000, 20000, I16_MAX}

\* rssi * u8::MAX as i16: the exact product, and whether it leaves the i16 range
\* (a build with overflow checks panics there, a build without them wraps)
rssi_product(rssi) == rssi * 255
overflows_i16(x) == x < I16_MIN \/ x > I16_MAX

\* the Connection arm of send_heartbeat on a reading: the lamps commanded
connection_lights(rssi) == scale(not_u8(rssi_level(rssi)))

\* the lamp computation on a reading, in a build with or without overflow checks
ConnectionLights(rssi, overflow_checks) ==
    /\ call = Idle
    /\ call' = [op |-> "connection_lights", rssi |-> rssi, overflow_checks |-> overflow_checks]
    /\ ret' = IF overflow_checks /\ overflows_i16(rssi_product(rssi))
              THEN [panicked |-> TRUE, lights |-> 0]
              ELSE [panicked |-> FALSE, lights |-> connection_lights(rssi)]
    /\ UNCHANGED <<connVars, wiiVars, outVars, runVars, host, peer>>

\* inputs are drawn while no function has been applied yet
Drawn(S) == IF call = Idle THEN S ELSE {}

NextCodec ==
    \/ \E g \in Drawn(Givens), trail \in Trails : ParseFrame(g, trail)
    \/ \E value \in Drawn(0..255) : Scale(value)
    \/ \E field \in Drawn(CommonFields) : FromCommon(field)
    \/ \E report \in Drawn(OutputReports) : Encode(report)
    \/ \E rssi \in Drawn(RssiValues), overflow_checks \in BOOLEAN :
          ConnectionLights(rssi, overflow_checks)

SpecCodec == Init /\ [][NextCodec]_vars

(***************************************************************************)
(* Properties.                                                             *)
(***************************************************************************)
Last(q) == q[Len(q)]

\* the lamps (1..4) a Lights value lights
LampSet(l) == {i \in 1..4 : Bit(l, i - 1) = 1}

\* the lamps of each quarter of the 0..255 scale
Band(level) ==
    IF level <= 63 THEN {1}
    ELSE IF level <= 127 THEN {1, 2}
    ELSE IF level <= 191 THEN {1, 2, 3}
    ELSE {1, 2, 3, 4}

\* the report a frame made of the fields g stands for
ExpectedReport(g) ==
    CASE g.tag = 32 ->
            [variant |-> "Status", buttons |-> g.pressed, lights |-> g.lights,
             plugged_ext |-> "ext" \in g.flags, speaker_enabled |-> "spk" \in g.flags,
             ir_enabled |-> "ir" \in g.flags, battery |-> g.battery]
      [] g.tag = 34 ->
            [variant |-> "Result", buttons |-> g.pressed,
             response_to |-> g.response_to, code |-> g.code]
      [] OTHER ->
            [variant |-> "Drm", buttons |-> IF g.tag = 61 THEN {} ELSE g.pressed,
             mode |-> g.tag]

\* C1: parse of a buffer that starts with a full frame of a supported tag succeeds,
\* leaves the cursor at 2 + the tag's payload length whatever bytes follow, and
\* returns the variant and the field values the frame was made of.
C1_ParseValidFrame ==
    call.op = "parse" =>
        /\ ret.ok
        /\ ret.position = 2 + PayloadLen(call.given.tag)
        /\ ret.report = ExpectedReport(call.given)

\* a Status frame with three buttons, a lamp pattern and bytes behind it was parsed
C1_Witness ==
    /\ call.op = "parse"
    /\ call.given.tag = 32
    /\ call.given.pressed = {"PLUS", "HOME", "B"}
    /\ call.given.lights = 9
    /\ Len(call.trail) = MaxTrail
    /\ ret.ok
    /\ ret.position = 8

\* C2: streaming equivalence. While bytes of a valid single frame are still to come
\* read_report neither returns a report nor fails, and once the last piece is read it
\* has returned exactly the report parse gives for the whole frame, leaving the
\* receive buffer empty, however the frame was split over channel reads.
C2_StreamingEquivalence ==
    (Len(sent) = 1 /\ sent[1] \in ValidFrames) =>
        /\ wire # <<>> => (received = <<>> /\ result = "running"
                               /\ buffer \o wire = sent[1])
        /\ wire = <<>> => (received = <<parse(sent[1]).report>> /\ buffer = <<>>)

\* a 23-byte frame was put together from a buffered piece and a later channel read
C2_Witness ==
    /\ Len(sent) = 1
    /\ Len(sent[1]) = 23
    /\ wire = <<>>
    /\ step.outcome = "report"
    /\ step.joined
    /\ step.parsed = sent[1]
    /\ Len(received) = 1
    /\ buffer = <<>>

\* C3: scale(level) lights exactly the lamps of the level's quarter (1..=1+(level>>6)),
\* never none, and never fewer than a lower level lights.
C3_ScaleLamps ==
    call.op = "scale" =>
        /\ ret \in 0..15
        /\ LampSet(ret) = Band(call.value)
        /\ LampSet(ret) = 1..(1 + call.value \div 64)
        /\ LampSet(ret) # {}
        /\ \A lower \in 0..call.value : LampSet(scale(lower)) \subseteq LampSet(ret)

\* level 192 is the first to light all four lamps
C3_Witness ==
    /\ call.op = "scale"
    /\ call.value = 192
    /\ LampSet(ret) = {1, 2, 3, 4}

\* C4 as stated: the fields 0x0800, 0x0004 and 0x1084 decode to {Up}, {B} and
\* {Plus, Left, B}.
C4_AsStated ==
    call.op = "from_common" =>
        /\ call.field = 2048 => ret = {"UP"}
        /\ call.field = 4 => ret = {"B"}
        /\ call.field = 4228 => ret = {"PLUS", "LEFT", "B"}

\* C4, amended: the fields 0x0800 and 0x0004 decode to {Up} and {B}; 0x1084 decodes
\* to {Plus, Home, B} (bit 7 is Home), and it is 0x1104 that gives {Plus, Left, B}.
C4_ButtonFields ==
    call.op = "from_common" =>
        /\ call.field = 2048 => ret = {"UP"}
        /\ call.field = 4 => ret = {"B"}
        /\ call.field = 4228 => ret = {"PLUS", "HOME", "B"}
        /\ call.field = 4356 => ret = {"PLUS", "LEFT", "B"}

\* the field 0x1084 was decoded
C4_Witness ==
    /\ call.op = "from_common"
    /\ call.field = 4228
    /\ ret = {"PLUS", "HOME", "B"}

\* the bytes start with the marker and a tag the codec does not know
UnknownTagAtFront(b) == Len(b) >= 3 /\ b[1] = 161 /\ b[2] \notin SupportedTags

\* C5: when the bytes read_report parses start with the marker and an unsupported tag,
\* it returns UnknownReportType to run, which returns it; no further byte is read
\* and the buffer still holds every byte parsed.
C5_UnknownTagFatal ==
    (step.branch = "read_report" /\ UnknownTagAtFront(step.parsed)) =>
        /\ step.outcome = "error"
        /\ result = "UnknownReportType"
        /\ pc = "returned"
        /\ buffer = step.parsed
        /\ buffer \o wire = sent[Len(sent)]
        /\ effects = <<>>

\* the frame with tag 0x99 came behind a report that was handled
C5_Witness ==
    /\ result = "UnknownReportType"
    /\ Len(received) = 1
    /\ Len(buffer) >= 3
    /\ buffer[2] = 153

\* C6 as stated: any non-empty buffer whose first byte is not the marker makes
\* read_report fail with InvalidTransHeader.
C6_AsStated ==
    (step.branch = "read_report" /\ step.parsed # <<>> /\ step.parsed[1] # 161) =>
        (step.outcome = "error" /\ result = "InvalidTransHeader")

\* C6, amended: a buffer of at least three bytes whose first byte is not the marker
\* makes parse return InvalidTransHeader, and read_report fails with it instead of
\* waiting for more bytes; with fewer than three bytes buffered parse answers
\* Incomplete and read_report goes on reading.
C6_BadMarkerFatal ==
    (step.branch = "read_report" /\ step.parsed # <<>> /\ step.parsed[1] # 161) =>
        IF Len(step.parsed) >= 3
        THEN /\ step.outcome = "error"
             /\ result = "InvalidTransHeader"
             /\ pc = "returned"
             /\ buffer = step.parsed
        ELSE step.outcome \in {"incomplete", "reset"}

\* the frame with first byte 0xA5 failed once its third byte was read
C6_Witness ==
    /\ result = "InvalidTransHeader"
    /\ step.joined
    /\ Len(step.parsed) >= 3
    /\ step.parsed[1] = 165

\* the last step of run handled a report, and every write of the step went through
Handled == step.outcome = "report" /\ result = "running"

\* the reports the last step wrote, in order
Written == [i \in 1..Len(Writes(effects)) |-> Writes(effects)[i].report]

\* how often the last step wrote a report of the kind cmd
Count(cmd) == Cardinality({i \in 1..Len(Written) : Written[i].cmd = cmd})

\* the Wiimote as the last step found it
Found ==
    [mode |-> pre.mode, prev_lights |-> pre.prev_lights,
     awaiting_status |-> pre.awaiting_status, stream |-> <<>>, effects |-> <<>>,
     err |-> "none", failAt |-> 0]

\* C7: a Status frame received while awaiting_status = false makes the Wiimote write
\* exactly one SetDrm{mode: 0x30, lights: prev_lights} and leaves prev_lights as it
\* was, whatever buttons the frame carries.
C7_UnsolicitedStatus ==
    (Handled /\ Last(received).variant = "Status" /\ ~pre.awaiting_status) =>
        /\ Count("SetDrm") = 1
        /\ \E i \in 1..Len(Written) : Written[i] = SetDrm(pre.prev_lights, 48)
        /\ prev_lights = pre.prev_lights

\* C7 holds of every Status frame whose buttons are not exactly {One}
C7_ExceptOne ==
    (Handled /\ Last(received).variant = "Status" /\ ~pre.awaiting_status
       /\ Last(received).buttons # {"ONE"}) =>
        /\ Written = <<SetDrm(pre.prev_lights, 48)>>
        /\ prev_lights = pre.prev_lights

\* C8: in Battery mode a Status frame received while awaiting_status = true clears
\* awaiting_status and writes SetLights(scale(battery)), which prev_lights becomes;
\* no SetDrm is written.
C8_SolicitedStatusBattery ==
    (Handled /\ Last(received).variant = "Status" /\ pre.awaiting_status
       /\ pre.mode = "Battery") =>
        /\ ~awaiting_status
        /\ Written # <<>>
        /\ Last(Written) = SetLights(prev_lights)
        /\ Count("SetLights") = 1
        /\ LampSet(prev_lights) = Band(Last(received).battery)
        /\ Count("SetDrm") = 0

\* the reply with battery 192 lit all four lamps where fewer were lit
C8_Witness ==
    /\ Handled
    /\ Last(received).variant = "Status"
    /\ Last(received).battery = 192
    /\ pre.awaiting_status
    /\ pre.prev_lights # 15
    /\ ~awaiting_status
    /\ Written = <<SetLights(15)>>
    /\ prev_lights = 15

\* C9: a report whose buttons are exactly {One} leaves mode = Battery and makes the
\* same step of run, not a heartbeat tick, write RequestStatus{lights: prev_lights}
\* first, which sets awaiting_status; the flag stays set unless the report is itself
\* a Status frame, which the rest of the step takes for the reply.
C9_OneRequestsStatus ==
    (Handled /\ Last(received).buttons = {"ONE"}) =>
        /\ step.branch = "read_report"
        /\ mode = "Battery"
        /\ Written # <<>>
        /\ Written[1] = RequestStatus(pre.prev_lights)
        /\ effects[2].ev = "write"
        /\ on_buttons(Found, Last(received), CHOOSE r \in ReadingsIn(pre.mode) : TRUE)
              .awaiting_status
        /\ Last(received).variant # "Status" => awaiting_status

\* a button report with One alone set the flag without a heartbeat tick
C9_Witness ==
    /\ Handled
    /\ Last(received).buttons = {"ONE"}
    /\ Last(received).variant = "Drm"
    /\ ~pre.awaiting_status
    /\ awaiting_status
    /\ Written = <<RequestStatus(prev_lights)>>

\* C10: a report whose buttons are exactly {Two} switches mode to Connection and
\* makes the same step write RequestStatus and then SetLights.
C10_TwoSwitchesMode ==
    (Handled /\ Last(received).buttons = {"TWO"}) =>
        /\ mode = "Connection"
        /\ Len(Written) >= 2
        /\ Written[1].cmd = "RequestStatus"
        /\ Written[2].cmd = "SetLights"

\* what the code does instead: mode is Battery in every state
C10_ModeStaysBattery == mode = "Battery"

\* the calls of the sink in the last step
Updates(evs) == SelectSeq(evs, LAMBDA e : e.ev = "update")

\* C11: a step of run that read_report gave a report calls the sink exactly once, with
\* the buttons of that report (empty or not) and before any write of the step; since
\* a step handles one report, the calls come in the order of arrival. No other step
\* (heartbeat tick, shutdown, end of stream, incomplete read, error) calls the sink.
C11_SinkOncePerReport ==
    IF step.outcome = "report"
    THEN /\ effects # <<>>
         /\ effects[1] = [ev |-> "update", buttons |-> Last(received).buttons]
         /\ Len(Updates(effects)) = 1
         /\ Len(received) <= Len(sent)
    ELSE Updates(effects) = <<>>

\* a Status report with no button down went to the sink before the SetDrm it caused
C11_Witness ==
    /\ step.outcome = "report"
    /\ Last(received).buttons = {}
    /\ Len(received) = 2
    /\ Len(effects) = 2
    /\ effects[1].ev = "update"
    /\ effects[2].ev = "write"

\* C12: a zero-length channel read ends run: with an empty receive buffer read_report
\* answers None and run returns Ok; with bytes of an unfinished frame buffered it
\* fails with the I/O error ConnectionReset. Neither touches the Wiimote or writes.
C12_EndOfStream ==
    (step.branch = "read_report" /\ step.read = "eof") =>
        /\ pc = "returned"
        /\ buffer = step.parsed
        /\ effects = <<>>
        /\ Pre = pre
        /\ IF step.parsed = <<>>
           THEN step.outcome = "closed" /\ result = "Ok"
           ELSE step.outcome = "reset" /\ result = "ConnectionReset"

\* the peer went away in the middle of a frame, after a report that was handled
C12_Witness ==
    /\ step.read = "eof"
    /\ buffer # <<>>
    /\ Len(received) = 1
    /\ result = "ConnectionReset"

\* the failures of run that main takes for a disconnection
Transient == {"Io", "ConnectionReset"}

\* the failures of run that are no I/O failure
Fatal == {"InvalidTransHeader", "UnknownReportType", "Uinput", "Bluer"}

\* C13: when run has returned a failure, main goes back to discover/listen if and
\* only if the failure is an I/O failure; any other failure is what the process
\* exits with. A failure of discover/listen (pairing included) also ends the process.
C13_RestartOnIoOnly ==
    /\ (step.branch = "main" /\ step.outcome \in {"restart", "abort"}) =>
          /\ result \in Transient \cup Fatal \cup {"Ok"}
          /\ result \in Transient => (pc = "connect" /\ exit = "running")
          /\ result \in Fatal => (pc = "exited" /\ exit = result)
    /\ (step.branch = "main" /\ step.outcome = "exit") =>
          (pc = "exited" /\ exit \in {"Ok", "Bluer", "Pair", "Io"})
    /\ pc = "exited" => exit # "running"
    /\ pc # "exited" => exit = "running"

\* main went back to discover/listen after the peer had gone away mid-frame
C13_Witness ==
    /\ step.branch = "main"
    /\ step.outcome = "restart"
    /\ result = "ConnectionReset"
    /\ pc = "connect"

\* C14: OutputReport::write gives, for every command, the marker 0xA2, the tag (0x11
\* SetLights, 0x15 RequestStatus, 0x12 SetDrm) and the lamp bits shifted into the
\* high nibble of the payload byte, SetDrm followed by its mode byte; the low nibble
\* of the payload byte is 0 and the payload shifted right by four is the lamp set.
C14_Encoding ==
    call.op = "encode" =>
        LET r == call.report
            l == r.lights
        IN /\ r.cmd = "SetLights" => ret = <<162, 17, l * 16>>
           /\ r.cmd = "RequestStatus" => ret = <<162, 21, l * 16>>
           /\ r.cmd = "SetDrm" => ret = <<162, 18, l * 16, r.mode>>
           /\ ret[3] \in 0..255
           /\ ret[3] % 16 = 0
           /\ ret[3] \div 16 = l

\* SetDrm with lamps 1 and 4 and mode 0x30 was encoded
C14_Witness ==
    /\ call.op = "encode"
    /\ call.report = SetDrm(9, 48)
    /\ ret = <<162, 18, 144, 48>>

\* send_heartbeat on a Wiimote in Connection mode, whichever lamps scale had lit and
\* whatever signal strength is read: RequestStatus with the lamps as they were, the
\* flag set, then one SetLights, without any report being read in between
C15_ConnectionArm ==
    \A l \in {1, 3, 7, 15}, a \in BOOLEAN, rd \in {r \in Readings : r.ok} :
        LET after == send_heartbeat(
                        [mode |-> "Connection", prev_lights |-> l, awaiting_status |-> a,
                         stream |-> <<>>, effects |-> <<>>, err |-> "none", failAt |-> 0],
                        rd)
        IN /\ after.err = "none"
           /\ after.awaiting_status
           /\ Len(after.effects) = 2
           /\ after.effects[1].report = RequestStatus(l)
           /\ after.effects[2].report.cmd = "SetLights"
           /\ after.effects[2].report.lights = after.prev_lights

\* C15: a heartbeat tick writes RequestStatus{lights: prev_lights} first and then sets
\* awaiting_status (the flag is left as it was when that write fails); in Battery mode
\* the step writes nothing else and changes nothing else, and in Connection mode it
\* goes on to write one SetLights in the same step.
C15_HeartbeatStep ==
    /\ step.branch = "heartbeat" =>
          /\ effects # <<>>
          /\ effects[1].ev = "write"
          /\ effects[1].report = RequestStatus(pre.prev_lights)
          /\ result = "running" => awaiting_status
          /\ ~effects[1].flushed =>
                (result = "Io" /\ awaiting_status = pre.awaiting_status
                   /\ Len(effects) = 1)
          /\ pre.mode = "Battery" =>
                (Len(effects) = 1 /\ prev_lights = pre.prev_lights /\ mode = "Battery")
          /\ (pre.mode = "Connection" /\ result = "running") =>
                (Len(Written) = 2 /\ Written[2] = SetLights(prev_lights))
          /\ C15_ConnectionArm

\* a heartbeat tick asked for the status with two lamps lit
C15_Witness ==
    /\ step.branch = "heartbeat"
    /\ result = "running"
    /\ ~pre.awaiting_status
    /\ awaiting_status
    /\ prev_lights = 3
    /\ Written = <<RequestStatus(3)>>

\* the last step handled a report whose buttons are neither exactly One nor exactly Two
OtherButtons == step.outcome = "report" /\ Last(received).buttons \notin {{"ONE"}, {"TWO"}}

\* C16 as stated: a report whose buttons are neither {One} nor {Two} only goes to the
\* sink: nothing is written and mode, prev_lights and awaiting_status stay.
C16_AsStated ==
    OtherButtons =>
        /\ Writes(effects) = <<>>
        /\ Pre = pre

\* C16, amended: a report that is no Status report and whose buttons are neither {One}
\* nor {Two} only goes to the sink: nothing is written and mode, prev_lights and
\* awaiting_status stay. A Status report with such buttons is answered: by SetDrm when
\* no status was awaited, by SetLights (in Battery mode) when one was.
C16_OtherButtons ==
    OtherButtons =>
        IF Last(received).variant # "Status"
        THEN /\ effects = <<[ev |-> "update", buttons |-> Last(received).buttons]>>
             /\ Pre = pre
             /\ stream = <<>>
        ELSE result = "running" =>
                /\ Len(Written) = 1
                /\ mode = pre.mode
                /\ ~awaiting_status
                /\ Written[1] = IF pre.awaiting_status
                                THEN SetLights(scale(Last(received).battery))
                                ELSE SetDrm(pre.prev_lights, 48)

\* a button report with Up went to the sink while a status was awaited, and the flag
\* is still set
C16_Witness ==
    /\ OtherButtons
    /\ Last(received).variant = "Drm"
    /\ Last(received).buttons = {"UP"}
    /\ pre.awaiting_status
    /\ awaiting_status
    /\ Len(effects) = 1

\* the bytes a step takes from the channel: what left the front of wire
Taken == IF Len(wire') < Len(wire) THEN SubSeq(wire, 1, Len(wire) - Len(wire')) ELSE <<>>

\* a step of a session, as the receive buffer sees it
C17_Step ==
    pc = "select" =>
        LET seen == buffer \o Taken
        IN /\ wire' = wire \/ Len(wire') > Len(wire) \/ wire = Taken \o wire'
           /\ IF received' # received
              THEN LET n == 2 + PayloadLen(seen[2])
                   IN /\ Len(seen) >= n
                      /\ seen = SubSeq(seen, 1, n) \o buffer'
                      /\ Last(received') = parse(SubSeq(seen, 1, n)).report
              ELSE buffer' = seen

\* C17: in every step of a session the receive buffer either gives up exactly the bytes
\* of the one frame whose report is returned, from its front, keeping every byte
\* behind the frame in order; or it stays as it is (Incomplete, fatal error, a step
\* that does not read) but for the bytes a channel read appends at its back.
C17_BufferInvariant == [][C17_Step]_vars

\* one channel read brought a frame and the bytes behind it: the frame was parsed and
\* the bytes behind it are what the buffer holds
C17_Witness ==
    /\ step.outcome = "report"
    /\ step.read = "data"
    /\ Len(received) = 1
    /\ buffer # <<>>
    /\ step.parsed = sent[1] \o buffer

\* the bytes of the frames, one after the other
RECURSIVE Flatten(_)
Flatten(frames) == IF frames = <<>> THEN <<>> ELSE Head(frames) \o Flatten(Tail(frames))

\* a is how b starts
IsPrefix(a, b) == Len(a) <= Len(b) /\ SubSeq(b, 1, Len(a)) = a

\* C18: whatever heartbeat ticks come between the channel reads, no byte and no frame
\* is lost: the bytes of the frames handled, the receive buffer and the bytes still on
\* the channel are together what the peer sent; the reports handled are those of the
\* frames sent, in order, none twice; and once nothing is left to read every frame
\* sent has been handled.
C18_NoFrameLost ==
    pc \in {"select", "returned"} =>
        /\ Len(received) <= Len(sent)
        /\ \A i \in 1..Len(received) : received[i] = parse(sent[i]).report
        /\ IsPrefix(Flatten(sent),
                    Flatten(SubSeq(sent, 1, Len(received))) \o buffer \o wire)
        /\ (pc = "select" /\ wire = <<>> /\ buffer = <<>>) => Len(received) = Len(sent)

\* a heartbeat tick won the select! while the first bytes of the second frame were
\* buffered; the next read completed the frame and its report was handled
C18_Witness ==
    /\ step.outcome = "report"
    /\ step.raced
    /\ step.joined
    /\ Len(received) = 2
    /\ Len(sent) = 2
    /\ pre.awaiting_status
    /\ buffer = <<>>
    /\ wire = <<>>

\* C19: Connection::write has succeeded only when the bytes of the command have left
\* the BufWriter for the socket: whenever run waits on the select! nothing is held
\* back in the BufWriter; a heartbeat tick or a shutdown signal is taken only there,
\* so it finds no write under way; the only write whose bytes did not reach the
\* socket is one whose flush failed, which ends the step and run with that failure.
C19_WritesFlushed ==
    /\ pc = "select" => stream = <<>>
    /\ step.branch = "ctrl_c" => (stream = <<>> /\ effects = <<>>)
    /\ \A i \in 1..Len(effects) :
          effects[i].ev = "write" =>
             \/ effects[i].flushed
             \/ i = Len(effects) /\ result = "Io" /\ pc = "returned"
                   /\ stream = effects[i].bytes
    /\ result \in {"running", "Ok"} => stream = <<>>

\* a step wrote two commands, each flushed before the next, and run waits again
C19_Witness ==
    /\ pc = "select"
    /\ Len(Writes(effects)) = 2
    /\ \A i \in 1..Len(effects) : effects[i].ev = "write" => effects[i].flushed
    /\ stream = <<>>

\* C20: prev_lights is the lamp pattern of the last SetLights the Wiimote issued, all
\* four lamps while it has issued none; a step changes it only by issuing a SetLights;
\* every RequestStatus and SetDrm carries the pattern last issued before it.
C20_PrevLights ==
    /\ prev_lights = shown
    /\ prev_lights = LastLights(effects, pre.prev_lights)
    /\ \A i \in 1..Len(effects) :
          (effects[i].ev = "write" /\ effects[i].report.cmd \in {"RequestStatus", "SetDrm"}) =>
              effects[i].report.lights = LastLights(SubSeq(effects, 1, i - 1), pre.prev_lights)

\* with lamps 1 and 2 lit by an earlier SetLights, an unsolicited Status was answered
\* by a SetDrm carrying lamps 1 and 2
C20_Witness ==
    /\ step.outcome = "report"
    /\ shown = 3
    /\ prev_lights = 3
    /\ Written = <<SetDrm(3, 48)>>

\* C21 (as stated): the lamp computation on a reading r commands
\* scale(NOT((r * 255 / -80) mod 2^8)); over -80..=0 a stronger signal never lights
\* fewer lamps, 0 lights all four lamps and -80 lights lamp 1 only; and for every
\* reading the computation takes the product r * 255 stays within the i16 range
\* (so the computation completes in every build)
C21_AsStated ==
    (call # Idle /\ call.op = "connection_lights") =>
        LET r == call.rssi
        IN /\ rssi_product(r) \in I16_MIN..I16_MAX
           /\ ~ret.panicked
           /\ ret.lights = scale(255 - ((TruncDiv(r * 255, -80)) % 256))
           /\ r \in -80..0 =>
                 /\ \A weaker \in -80..r :
                       LampSet(connection_lights(weaker)) \subseteq LampSet(ret.lights)
                 /\ r = 0 => LampSet(ret.lights) = {1, 2, 3, 4}
                 /\ r = -80 => LampSet(ret.lights) = {1}

\* C21 (what holds): for the readings -128..=128 the product stays within the i16
\* range and the computation is as stated, monotone over -80..=0 with the two end
\* points as stated
C21_WithinRange ==
    (call # Idle /\ call.op = "connection_lights" /\ call.rssi \in -128..128) =>
        LET r == call.rssi
        IN /\ rssi_product(r) \in I16_MIN..I16_MAX
           /\ ~ret.panicked
           /\ ret.lights = scale(255 - ((TruncDiv(r * 255, -80)) % 256))
           /\ r \in -80..0 =>
                 /\ \A weaker \in -80..r :
                       LampSet(connection_lights(weaker)) \subseteq LampSet(ret.lights)
                 /\ r = 0 => LampSet(ret.lights) = {1, 2, 3, 4}
                 /\ r = -80 => LampSet(ret.lights) = {1}

\* a reading below -80 (a weaker signal than the scale's weak end) lights all lamps
C21_WeakerThanScale ==
    call # Idle /\ call.op = "connection_lights" /\ call.rssi = -85
        /\ LampSet(ret.lights) = {1, 2, 3, 4}

\* C22: once pair() or listen() has returned, on any exit path (success, pairing
\* failure, bind failure, accept failure, shutdown; a mismatched or unpaired remote
\* does not return), no agent is registered with the session and no handle is held
C22_NoAgentLeft ==
    host.at \notin {"pairing", "listen"} => host.agents = {} /\ host.handle = "none"

\* listen() has returned a connection; its agent was registered while it waited
C22_Witness ==
    /\ host.at = "returned"
    /\ host.last.op = "listen_accept"
    /\ host.ret = "Some"

\* listen() waits with its agent registered
C22_AgentWhileListening == host.at = "listen" /\ host.agents = {"auth"}

\* C23 (as stated): while device.pair() runs for a device that was not paired, the
\* pairing agent is registered with the session, and a PIN request is answered with
\* the adapter's address reversed when it names this device and rejected otherwise
C23_AsStated ==
    /\ host.at = "pairing" => "pin" \in host.agents
    /\ host.last.op = "pin_request" =>
          host.last.reply = IF host.last.device = host.device.addr
                            THEN [answer |-> "pin", pin |-> Reverse(AdapterAddress)]
                            ELSE [answer |-> "Rejected", pin |-> <<>>]

\* no agent is ever registered while pair() runs
C23_NeverRegistered == host.at \in {"pair", "pairing"} => host.agents = {}

\* the agent's closure itself answers as stated
C23_Closure ==
    \A remote \in RemoteAddresses, asked \in RemoteAddresses :
        request_pin_code(remote, AdapterAddress, asked) =
            IF asked = remote THEN [answer |-> "pin", pin |-> <<6, 5, 4, 3, 2, 1>>]
            ELSE [answer |-> "Rejected", pin |-> <<>>]

\* C24: listen() returns a connection only if both listeners accepted, from the same
\* remote address, and that device is paired; when the addresses differ or the device
\* is not paired the accepted channels are dropped and listen() keeps waiting; a
\* shutdown signal during the wait makes it return None
C24_Listen ==
    /\ host.last.op = "listen_accept" =>
          /\ host.ret = "Some" <=>
                /\ host.last.ok
                /\ host.last.control = host.last.data
                /\ host.last.paired
          /\ host.ret = "Some" =>
                /\ host.at = "returned"
                /\ host.streams = {"control", "data"}
                /\ host.device.addr = host.last.control
          /\ (host.last.ok /\ (host.last.control # host.last.data \/ ~host.last.paired)) =>
                /\ host.at = "listen"
                /\ host.streams = {}
                /\ host.ret = "running"
    /\ host.last.op = "listen_break" => host.at = "returned" /\ host.ret = "None"
    /\ (host.at = "returned" /\ host.ret = "Some" /\ host.last.op # "connect") =>
          host.last.op = "listen_accept"

\* listen() has turned away an unpaired remote that connected both channels
C24_Witness ==
    /\ host.at = "listen"
    /\ host.last.op = "listen_accept"
    /\ host.last.ok
    /\ host.last.control = host.last.data
    /\ ~host.last.paired

\* listen() has returned a connection to a paired remote
C24_Returned == host.last.op = "listen_accept" /\ host.ret = "Some"

C25_Taken == host.last.op = "discover_event" /\ host.at = "connect"

\* C26 (as stated): with a remote that answers every RequestStatus with exactly one
\* Status frame and sends no other Status frame, no step of run writes SetDrm,
\* whatever the order of ticks, button reports and replies
C26_AsStated == peer.answers => Count("SetDrm") = 0

\* the second of two replies is taken for an unsolicited Status: both requests had
\* been written before the first reply was read
C26_SecondReplyUnsolicited ==
    /\ peer.answers
    /\ Len(received) = 2
    /\ step.outcome = "report"
    /\ ~pre.awaiting_status
    /\ Written = <<SetDrm(pre.prev_lights, 48)>>

\* with the answering remote, a Status read while awaiting_status is set is never
\* answered with SetDrm
C26_WhileAwaiting ==
    (peer.answers /\ step.outcome = "report" /\ pre.awaiting_status) => Count("SetDrm") = 0

\* C27 (as stated): when ctrl_c() has won the select! of run, run returns Ok and main
\* then leaves its loop: its next step ends the process with Ok, and no discover()
\* or listen() is called again
C27_AsStated ==
    [][(pc = "returned" /\ step.branch = "ctrl_c") => (pc' = "exited" /\ exit' = "Ok")]_vars

\* the first half holds: run returns Ok on the signal, having written nothing
C27_RunReturnsOk ==
    step.branch = "ctrl_c" => pc = "returned" /\ result = "Ok" /\ effects = <<>>

\* what main does instead: after the signal it is back at the head of its loop
C27_LoopsAgain ==
    [][(pc = "returned" /\ step.branch = "ctrl_c") => (pc' = "connect" /\ exit' = "running")]_vars

\* C28 (as stated): no command is written in a session before its first heartbeat
\* tick.  awaiting_status is set by every heartbeat that wrote its request and cleared
\* only on reading a Status report, so the first report of a session read with
\* awaiting_status clear is read before any tick: that step must write nothing
C28_AsStated ==
    (step.outcome = "report" /\ Len(received) = 1 /\ ~pre.awaiting_status) =>
        Writes(effects) = <<>>

\* the first command of a session is a SetDrm, written on a Status frame read
\* before the first tick
C28_SetDrmFirst ==
    /\ step.outcome = "report"
    /\ Len(received) = 1
    /\ ~pre.awaiting_status
    /\ Written = <<SetDrm(Lights_all, 48)>>

\* the first command of a session is a RequestStatus written on a {One} report read
\* before the first tick, not on the timer
C28_RequestOnButton ==
    /\ step.outcome = "report"
    /\ step.branch = "read_report"
    /\ Len(received) = 1
    /\ ~pre.awaiting_status
    /\ Len(Written) >= 1
    /\ Written[1] = RequestStatus(Lights_all)

\* the reports of the frames sent
DecodedBurst == [i \in 1..Len(sent) |-> parse(sent[i]).report]

\* C29: while the buffer holds a complete frame no step takes bytes from the
\* channel, and the read_report call that then returns a report returns the first
\* frame of the buffer and leaves the bytes behind it in the buffer: the frames
\* one channel read delivered are returned one per call, in arrival order
C29_BufferedFirst ==
    [][(pc = "select" /\ parse_report(buffer).kind = "Some") =>
          /\ IsPrefix(wire, wire')
          /\ received' # received =>
                /\ received' = Append(received, parse_report(buffer).report)
                /\ buffer' = parse_report(buffer).buffer
                /\ step'.read = "none"]_vars

\* a call has returned the second report from the buffer without a channel read,
\* although the bytes of a third frame wait in the channel: one read had delivered
\* the bytes of the first two frames
C29_Witness ==
    /\ step.branch = "read_report"
    /\ step.read = "none"
    /\ step.outcome = "report"
    /\ received = SubSeq(DecodedBurst, 1, 2)
    /\ Len(sent) = 3
    /\ buffer = <<>>
    /\ wire = sent[3]

\* a call has returned a report and left a prefix of the next frame in the buffer
C29_FrameAndPrefix ==
    /\ step.branch = "read_report"
    /\ step.read = "data"
    /\ step.outcome = "report"
    /\ buffer # <<>>
    /\ parse_report(buffer).kind = "None"
====
